---- MODULE Spec2Model ----
(***************************************************************************)
(* Activity-history reconstruction for one NFT mint address, as            *)
(* implemented in src/tools/web3-refactored.ts (lines 118-628): the        *)
(* Scanner (scanMintAddressHistory), the Classifier (scanTokenAccountList) *)
(* and the final sort (fetchActivityHistoryForMintAddress).                *)
(*                                                                         *)
(* The ledger (what the RPC node returns) is chosen in Init and never      *)
(* changes.  One query is a sequence of steps: every await of a fetch and  *)
(* every call of a per-instruction handler is one action.                  *)
(***************************************************************************)
EXTENDS Integers, Sequences, FiniteSets, TLC

\* ------------------------------------------------------------------ bounds

\* longest inner-instruction group drawn for the group family
MaxGroupLen == 3

\* longest token-account history drawn for the ordering family
MaxHist == 3

\* largest block time drawn for the ordering family
MaxBlockTime == 3

\* ------------------------------------------------------------ JS values

\* a field that is absent from a parsed instruction (JS undefined)
Undefined == "undefined"

\* JS null
Null == "null"

\* JS falsiness of an address-like value
Falsy(v) == v \in {Undefined, Null, ""}

\* tx.blockTime when the node reports none; 0 is equally falsy in JS
NoTime == 0

\* A lamport amount is kept exactly, in two limbs of base 10^9, because the
\* code accumulates it in an arbitrary-precision BigNumber.
GIGA == 1000 * 1000 * 1000

BN(g, u) == [giga |-> g, units |-> u]

\* new BN(0)
BNZero == BN(0, 0)

\* BigNumber.plus
BNPlus(a, b) ==
  LET u == a.units + b.units
  IN  BN(a.giga + b.giga + (u \div GIGA), u % GIGA)

\* a JS number holding a lamport amount, and a value that is no number
JSNumber(g, u) == [kind |-> "number", giga |-> g, units |-> u]

NotANumber == [kind |-> "undefined", giga |-> 0, units |-> 0]

\* typeof v === "number"
TypeofNumber(v) == v.kind = "number"

\* --------------------------------------------------------- program constants

MAGIC_EDEN_LISTING_ACCOUNT == "GUfCR9mK6azb9vcpsxgXyj7XRPAKJd4KMHTTVvtncGgp"

MULTI_SIG_ADDRESSES ==
  { "4pUQS4Jo2dsfWzt3VgHXy3H6RYnEDd11oWPiaM2rdAPw",
    "3D49QorJyNaL4rcpiynbuS3pRH4Y7EXEM6v6ZGaqfFGK",
    "F4ghBzHFNgJxV4wEQDchU5i7n4XWWMBSaq7CuswGiVsr" }

DELEGATE_ADDRESS == "1BWutmTvYPwDtmw9abTkS4Ssr8no61spGAvW1X6NDix"

\* ------------------------------------------------------- parsed instructions

\* A ParsedInstruction: parsed says whether the "parsed" key is present;
\* every info field the matchers read is a field here, Undefined when absent.
BlankIx ==
  [ parsed |-> TRUE, type |-> Undefined,
    mint |-> Undefined, account |-> Undefined, wallet |-> Undefined,
    source |-> Undefined, destination |-> Undefined,
    authority |-> Undefined, newAuthority |-> Undefined,
    multisigAuthority |-> Undefined,
    mintAuthority |-> Undefined, multisigMintAuthority |-> Undefined,
    delegate |-> Undefined, owner |-> Undefined,
    lamports |-> NotANumber ]

SetAuthorityIx(from, to) ==
  [BlankIx EXCEPT !.type = "setAuthority", !.authority = from, !.newAuthority = to]

ApproveIx(delegate, owner) ==
  [BlankIx EXCEPT !.type = "approve", !.delegate = delegate, !.owner = owner]

RevokeIx(owner) == [BlankIx EXCEPT !.type = "revoke", !.owner = owner]

\* a system-program transfer: a lamport amount, no authority
SolTransferIx(source, g, u) ==
  [BlankIx EXCEPT !.type = "transfer", !.source = source,
                  !.destination = "SELLER", !.lamports = JSNumber(g, u)]

\* a token-program transfer: an authority, no lamports field
TokenTransferIx(source, authority, multisig) ==
  [BlankIx EXCEPT !.type = "transfer", !.source = source, !.destination = "T2",
                  !.authority = authority, !.multisigAuthority = multisig]

MintToIx(mint, account, authority, multisig) ==
  [BlankIx EXCEPT !.type = "mintTo", !.mint = mint, !.account = account,
                  !.mintAuthority = authority,
                  !.multisigMintAuthority = multisig]

CreateIx(mint, account, wallet) ==
  [BlankIx EXCEPT !.type = "create", !.mint = mint, !.account = account,
                  !.wallet = wallet]

TransferCheckedIx(mint, source, destination) ==
  [BlankIx EXCEPT !.type = "transferChecked", !.mint = mint,
                  !.source = source, !.destination = destination]

\* The instructions the ledgers below are built from, by name.
Pool ==
  [ saList   |-> SetAuthorityIx("A", MAGIC_EDEN_LISTING_ACCOUNT),
    saME     |-> SetAuthorityIx(MAGIC_EDEN_LISTING_ACCOUNT, "B"),
    saMEA    |-> SetAuthorityIx(MAGIC_EDEN_LISTING_ACCOUNT, "A"),
    approveD |-> ApproveIx(DELEGATE_ADDRESS, "A"),
    approveO |-> ApproveIx("C", "A"),
    revoke   |-> RevokeIx("A"),
    solB     |-> SolTransferIx("B", 0, 1),
    solC     |-> SolTransferIx("C", 0, 2),
    tokD     |-> TokenTransferIx("T1", DELEGATE_ADDRESS, Undefined),
    tokMS    |-> TokenTransferIx("T1", Undefined,
                   "3D49QorJyNaL4rcpiynbuS3pRH4Y7EXEM6v6ZGaqfFGK"),
    raw      |-> [BlankIx EXCEPT !.parsed = FALSE],
    close    |-> [BlankIx EXCEPT !.type = "closeAccount", !.account = "T1"],
    \* the three legs of the price-aggregation example
    leg9500  |-> SolTransferIx("B", 9, 500000000),
    leg500   |-> SolTransferIx("B", 0, 500000000),
    leg1     |-> SolTransferIx("B", 0, 1000000),
    \* the legs of the listing/cancel/sale scenario, paid by A, B or C
    payA     |-> SolTransferIx("A", 10, 450000000),
    payB     |-> SolTransferIx("B", 10, 450000000),
    payC     |-> SolTransferIx("C", 10, 450000000),
    feeA     |-> SolTransferIx("A", 0, 550000000),
    feeB     |-> SolTransferIx("B", 0, 550000000),
    feeC     |-> SolTransferIx("C", 0, 550000000),
    \* the Scanner's instructions
    mintTo      |-> MintToIx("MINT", "T1", "MINTER", Undefined),
    mintToMulti |-> MintToIx("MINT", "T1", Undefined, "MSMINTER"),
    mintToBoth  |-> MintToIx("MINT", "T1", "MINTER", "MSMINTER"),
    mintToOther |-> MintToIx("OTHERMINT", "T2", "MINTER", Undefined),
    createT1    |-> CreateIx("MINT", "T1", "A"),
    createT2    |-> CreateIx("MINT", "T2", "B"),
    createOther |-> CreateIx("OTHERMINT", "T1", "C"),
    xferT2      |-> TransferCheckedIx("MINT", "T1", "T2"),
    xferT1      |-> TransferCheckedIx("MINT", "T2", "T1"),
    xferOther   |-> TransferCheckedIx("OTHERMINT", "T1", "T2") ]

\* ---------------------------------------------------------------- transactions

\* A ParsedConfirmedTransaction.  instructions and the groups of
\* innerInstructions hold names of Pool.  A null entry of the fetched list,
\* a null meta and a null meta.innerInstructions all make the loops skip
\* the transaction; they are the transaction with nothing to iterate.
Tx(sigs, time, top, inner) ==
  [ signatures |-> sigs, blockTime |-> time,
    instructions |-> top, innerInstructions |-> inner ]

NullTx == Tx(<<>>, NoTime, <<>>, <<>>)

\* Array.prototype.join("") of the signature list
RECURSIVE Join(_)
Join(sigs) == IF sigs = <<>> THEN "" ELSE Head(sigs) \o Join(Tail(sigs))

RECURSIVE ConcatAll(_)
ConcatAll(ss) == IF ss = <<>> THEN <<>> ELSE Head(ss) \o ConcatAll(Tail(ss))

Range(s) == { s[i] : i \in 1..Len(s) }

Min(S) == CHOOSE x \in S : \A y \in S : x <= y

\* ------------------------------------------------------ the iteration helpers

\* forEachTransactionMessageInstruction: the handler's contexts, in call
\* order.  name is the Pool name of ix, kept for the properties.
MessageContexts(txs) ==
  ConcatAll([t \in 1..Len(txs) |->
    SelectSeq([k \in 1..Len(txs[t].instructions) |->
                 [ tx |-> txs[t], ix |-> Pool[txs[t].instructions[k]],
                   name |-> txs[t].instructions[k] ]],
              LAMBDA c : c.ix.parsed)])

\* forEachTransactionInnerInstruction: the handler's contexts, in call order.
\* innerInstruction is the whole group (innerInstruction.instructions);
\* group and name locate ix for the properties.
InnerContexts(txs) ==
  ConcatAll([t \in 1..Len(txs) |->
    ConcatAll([g \in 1..Len(txs[t].innerInstructions) |->
      SelectSeq([k \in 1..Len(txs[t].innerInstructions[g]) |->
                   [ tx |-> txs[t],
                     ix |-> Pool[txs[t].innerInstructions[g][k]],
                     innerInstruction |-> txs[t].innerInstructions[g],
                     group |-> g,
                     name |-> txs[t].innerInstructions[g][k] ]],
                LAMBDA c : c.ix.parsed)])])

\* ------------------------------------------------------- the Scanner matchers

\* MintTargetAccount with the push of the mintTo target lost
NoTargetAccount(ix) == <<>>

\* matchMintTransaction, the account it records
MintTargetAccount(ix) == <<ix.account>>

\* Minter without the fallback to the multisig authority
MinterNoFallback(ix) == ix.mintAuthority

\* lines 390-399: the minter of a mintTo instruction
Minter(ix) ==
  IF Falsy(ix.mintAuthority) /\ ~Falsy(ix.multisigMintAuthority)
  THEN ix.multisigMintAuthority
  ELSE ix.mintAuthority

matchMintTransaction(ctx) ==
  LET ix == ctx.ix
  IN  IF ix.type = "mintTo" /\ ix.mint = ctx.address
      THEN [ctx EXCEPT
             !.history = @ \o << [ tx |-> ctx.tx, minter |-> Minter(ix),
                                   type |-> "Mint",
                                   signatures |-> ctx.tx.signatures ] >>,
             !.tokenAccounts = @ \o MintTargetAccount(ix)]
      ELSE ctx

\* matchCreateTransaction without the comparison of the mint
CreateOfAnyMint(ctx) ==
  IF ctx.ix.type = "create"
  THEN [ctx EXCEPT !.tokenAccounts = @ \o <<ctx.ix.account>>]
  ELSE ctx

matchCreateTransaction(ctx) ==
  LET ix == ctx.ix
  IN  IF ix.type = "create" /\ ix.mint = ctx.address
      THEN [ctx EXCEPT !.tokenAccounts = @ \o <<ix.account>>]
      ELSE ctx

\* tx.transaction.message.instructions.find(parsed and type "create")
HasCreateIx(tx) ==
  \E k \in 1..Len(tx.instructions) :
     Pool[tx.instructions[k]].parsed /\ Pool[tx.instructions[k]].type = "create"

FindCreateIx(tx) ==
  Pool[tx.instructions[
    Min({ k \in 1..Len(tx.instructions) :
            Pool[tx.instructions[k]].parsed
            /\ Pool[tx.instructions[k]].type = "create" })]]

\* Whether matchTransferTransaction awaits getParsedAccountInfo for ctx.
NeedsAccountInfo(ctx, queried) ==
  /\ ctx.ix.type = "transferChecked"
  /\ ctx.ix.mint = queried
  /\ (IF HasCreateIx(ctx.tx) THEN FindCreateIx(ctx.tx).wallet ELSE Null) = Null

\* NewOwnerAddress with the account-info lookup consulted first
LookupBeforeCreate(fromCreate, accountOwner) ==
  IF accountOwner # Null THEN accountOwner ELSE fromCreate

\* lines 313-342: the wallet of the create instruction when one was found,
\* else what the account-info lookup gave
NewOwnerAddress(fromCreate, accountOwner) ==
  IF fromCreate = Null THEN accountOwner ELSE fromCreate

\* matchTransferTransaction dropping the transfer whose new owner is unknown
TransferOfKnownOwnerOnly(ctx, accountOwner) ==
  LET ix == ctx.ix
      fromCreate == IF HasCreateIx(ctx.tx) THEN FindCreateIx(ctx.tx).wallet
                    ELSE Null
      newOwnerAddress == IF fromCreate = Null THEN accountOwner ELSE fromCreate
  IN  IF ix.type = "transferChecked" /\ ix.mint = ctx.address
         /\ newOwnerAddress # Null
      THEN [ctx EXCEPT
             !.history = @ \o << [ tx |-> ctx.tx, source |-> ix.source,
                                   newOwnerAddress |-> newOwnerAddress,
                                   type |-> "Transfer",
                                   destinationTokenAccount |-> ix.destination,
                                   signatures |-> ctx.tx.signatures ] >>,
             !.tokenAccounts = @ \o <<ix.destination>>]
      ELSE ctx

\* matchTransferTransaction; accountOwner is what the account-info lookup of
\* the destination gives: the owner, or Null when the account is absent.
matchTransferTransaction(ctx, accountOwner) ==
  LET ix == ctx.ix
      fromCreate == IF HasCreateIx(ctx.tx) THEN FindCreateIx(ctx.tx).wallet
                    ELSE Null
      newOwnerAddress == NewOwnerAddress(fromCreate, accountOwner)
  IN  IF ix.type = "transferChecked" /\ ix.mint = ctx.address
      THEN [ctx EXCEPT
             !.history = @ \o << [ tx |-> ctx.tx, source |-> ix.source,
                                   newOwnerAddress |-> newOwnerAddress,
                                   type |-> "Transfer",
                                   destinationTokenAccount |-> ix.destination,
                                   signatures |-> ctx.tx.signatures ] >>,
             !.tokenAccounts = @ \o <<ix.destination>>]
      ELSE ctx

\* scanMintAddressHistory.parseInstruction: the three matchers piped over a
\* context with an empty history and an empty tokenAccounts.
parseInstruction(txContext, address, accountOwner) ==
  matchTransferTransaction(
    matchCreateTransaction(
      matchMintTransaction(
        [ tx |-> txContext.tx, ix |-> txContext.ix, address |-> address,
          history |-> <<>>, tokenAccounts |-> <<>> ])),
    accountOwner)

\* ----------------------------------------------------- the marketplace matchers

None == [some |-> FALSE]

Some(v) == [some |-> TRUE, value |-> v]

\* IsSaleTransaction without its setAuthority branch
SaleByTransferOnly(ctx) ==
  /\ ctx.ix.type = "transfer"
  /\ \/ ctx.ix.authority = DELEGATE_ADDRESS
     \/ ctx.ix.multisigAuthority \in MULTI_SIG_ADDRESSES
  /\ Len(ctx.innerInstruction) > 2

\* IsSaleTransaction without the length test of its transfer branch
SaleByTransferOfAnyLength(ctx) ==
  LET ix == ctx.ix
  IN  IF ix.type = "setAuthority"
      THEN ix.authority = MAGIC_EDEN_LISTING_ACCOUNT
           /\ Len(ctx.innerInstruction) > 1
      ELSE IF ix.type = "transfer"
      THEN \/ ix.authority = DELEGATE_ADDRESS
           \/ ix.multisigAuthority \in MULTI_SIG_ADDRESSES
      ELSE FALSE

\* matchSaleTransaction, lines 559-582: whether ctx.ix makes its group a sale
IsSaleTransaction(ctx) ==
  LET ix == ctx.ix
      n == Len(ctx.innerInstruction)
  IN  IF ix.type = "setAuthority"
      THEN ix.authority = MAGIC_EDEN_LISTING_ACCOUNT /\ n > 1
      ELSE IF ix.type = "transfer"
      THEN /\ \/ ix.authority = DELEGATE_ADDRESS
              \/ ix.multisigAuthority \in MULTI_SIG_ADDRESSES
           /\ n > 2
      ELSE FALSE

\* AddLamports taking the single leg instead of adding it
LastLegOnly(lamportsTransferred, amount) == BNPlus(BNZero, amount)

\* line 595: the running total after one more leg
AddLamports(lamportsTransferred, amount) == BNPlus(lamportsTransferred, amount)

\* NextBuyer keeping the buyer of the first leg
FirstBuyer(buyer, source) == IF buyer = "" THEN source ELSE buyer

\* line 594: the buyer after one more leg
NextBuyer(buyer, source) == source

\* matchSaleTransaction, lines 589-599: the loop over the group's instructions
RECURSIVE SaleLoop(_, _, _)
SaleLoop(instructions, buyer, lamportsTransferred) ==
  IF instructions = <<>>
  THEN [buyer |-> buyer, lamports |-> lamportsTransferred]
  ELSE LET ix == Pool[Head(instructions)]
           leg == /\ ix.parsed
                  /\ ix.type = "transfer"
                  /\ TypeofNumber(ix.lamports)
       IN  SaleLoop(Tail(instructions),
                    IF leg THEN NextBuyer(buyer, ix.source) ELSE buyer,
                    IF leg THEN AddLamports(lamportsTransferred, ix.lamports)
                           ELSE lamportsTransferred)

\* matchSaleTransaction matching every transfer of lamports
SaleOnAnyTransfer(ctx, matchedTxOption) ==
  IF matchedTxOption.some THEN matchedTxOption
  ELSE IF IsSaleTransaction(ctx)
          \/ (ctx.ix.type = "transfer" /\ TypeofNumber(ctx.ix.lamports))
  THEN LET r == SaleLoop(ctx.innerInstruction, "", BNZero)
       IN  Some([ tx |-> ctx.tx, buyer |-> r.buyer, type |-> "Sale",
                  lamports |-> r.lamports,
                  signatures |-> ctx.tx.signatures,
                  marketplace |-> "MagicEden" ])
  ELSE None

\* matchSaleTransaction giving no Sale when no lamports were transferred
SaleNeedsLegs(ctx, matchedTxOption) ==
  IF matchedTxOption.some THEN matchedTxOption
  ELSE LET r == SaleLoop(ctx.innerInstruction, "", BNZero)
       IN  IF IsSaleTransaction(ctx) /\ r.buyer # ""
           THEN Some([ tx |-> ctx.tx, buyer |-> r.buyer, type |-> "Sale",
                       lamports |-> r.lamports,
                       signatures |-> ctx.tx.signatures,
                       marketplace |-> "MagicEden" ])
           ELSE None

matchSaleTransaction(ctx, matchedTxOption) ==
  IF matchedTxOption.some THEN matchedTxOption
  ELSE IF IsSaleTransaction(ctx)
  THEN LET r == SaleLoop(ctx.innerInstruction, "", BNZero)
       IN  Some([ tx |-> ctx.tx, buyer |-> r.buyer, type |-> "Sale",
                  lamports |-> r.lamports,
                  signatures |-> ctx.tx.signatures,
                  marketplace |-> "MagicEden" ])
  ELSE None

\* matchListingTransaction without the comparison of the delegate
ListingOnAnyApprove(ctx, matchedTxOption) ==
  LET ix == ctx.ix
      listing(seller) ==
        Some([ tx |-> ctx.tx, seller |-> seller, type |-> "Listing",
               signatures |-> ctx.tx.signatures,
               marketplace |-> "MagicEden" ])
  IN  IF matchedTxOption.some THEN matchedTxOption
      ELSE IF ix.type = "approve" THEN listing(ix.owner)
      ELSE IF ix.type = "setAuthority"
      THEN IF ix.newAuthority = MAGIC_EDEN_LISTING_ACCOUNT
           THEN listing(ix.authority) ELSE None
      ELSE None

matchListingTransaction(ctx, matchedTxOption) ==
  LET ix == ctx.ix
      listing(seller) ==
        Some([ tx |-> ctx.tx, seller |-> seller, type |-> "Listing",
               signatures |-> ctx.tx.signatures,
               marketplace |-> "MagicEden" ])
  IN  IF matchedTxOption.some THEN matchedTxOption
      ELSE IF ix.type = "approve"
      THEN IF ix.delegate = DELEGATE_ADDRESS THEN listing(ix.owner) ELSE None
      ELSE IF ix.type = "setAuthority"
      THEN IF ix.newAuthority = MAGIC_EDEN_LISTING_ACCOUNT
           THEN listing(ix.authority) ELSE None
      ELSE None

\* matchCancelListingTransaction taking a revoke only when it stands alone
CancelOnLoneRevoke(ctx, matchedTxOption) ==
  LET ix == ctx.ix
      cancel(seller) ==
        Some([ tx |-> ctx.tx, seller |-> seller, type |-> "CancelListing",
               signatures |-> ctx.tx.signatures,
               marketplace |-> "MagicEden" ])
  IN  IF matchedTxOption.some THEN matchedTxOption
      ELSE IF ix.type = "revoke"
      THEN IF Len(ctx.innerInstruction) = 1 THEN cancel(ix.owner) ELSE None
      ELSE IF ix.type = "setAuthority"
      THEN IF /\ ix.authority = MAGIC_EDEN_LISTING_ACCOUNT
              /\ Len(ctx.innerInstruction) = 1
           THEN cancel(ix.newAuthority) ELSE None
      ELSE None

matchCancelListingTransaction(ctx, matchedTxOption) ==
  LET ix == ctx.ix
      cancel(seller) ==
        Some([ tx |-> ctx.tx, seller |-> seller, type |-> "CancelListing",
               signatures |-> ctx.tx.signatures,
               marketplace |-> "MagicEden" ])
  IN  IF matchedTxOption.some THEN matchedTxOption
      ELSE IF ix.type = "revoke" THEN cancel(ix.owner)
      ELSE IF ix.type = "setAuthority"
      THEN IF /\ ix.authority = MAGIC_EDEN_LISTING_ACCOUNT
              /\ Len(ctx.innerInstruction) = 1
           THEN cancel(ix.newAuthority) ELSE None
      ELSE None

\* parseInnerInstruction, lines 249-254: the pipe of the three matchers
MatchedTx(ctx) ==
  matchCancelListingTransaction(ctx,
    matchListingTransaction(ctx,
      matchSaleTransaction(ctx, None)))

\* IsChecked with the seen-signature test lost: nothing counts as seen
NeverChecked(checked, signature) == FALSE

\* line 261: checkedTransactions.has(signature)
IsChecked(checked, signature) == signature \in checked

\* NewCheckedTransactions with the set kept from one call to the next
KeptCheckedTransactions(stale) == stale

\* line 239: the seen-signature set a call starts with; stale is what an
\* earlier call of the module left behind
NewCheckedTransactions(stale) == {}

\* Dedupe with the accounts handed on as the Scanner recorded them
WithDuplicates(s) == s

\* line 240: Array.from(new Set(tokenAccounts)), first occurrences in order
RECURSIVE Dedupe(_)
Dedupe(s) ==
  IF s = <<>> THEN <<>>
  ELSE LET front == Dedupe(SubSeq(s, 1, Len(s) - 1))
           last == s[Len(s)]
       IN  IF last \in Range(front) THEN front ELSE Append(front, last)

\* -------------------------------------------------------------- the final sort

\* sortTxsByBlockTime with the operands of the subtraction swapped
AscendingByBlockTime(a, b) ==
  IF a.tx.blockTime # 0 /\ b.tx.blockTime # 0
  THEN a.tx.blockTime - b.tx.blockTime
  ELSE 1

\* sortTxsByBlockTime: negative when a sorts before b
sortTxsByBlockTime(a, b) ==
  LET aTime == a.tx.blockTime
      bTime == b.tx.blockTime
  IN  IF aTime # NoTime /\ bTime # NoTime THEN bTime - aTime ELSE 1

\* txHistory.sort(sortTxsByBlockTime) runs the engine's Array.prototype.sort.
\* The comparator is not a consistent comparison when a block time is
\* missing, and the order is then the engine's: the three engines a browser
\* or Node build runs on are modelled, each for the short arrays (fewer than
\* 24 elements) of this model.

\* V8 (TimSort): the first run is counted and, when strictly descending,
\* reversed; the rest is inserted by binary insertion.
RECURSIVE V8RunEnd(_, _, _)
V8RunEnd(s, i, descending) ==
  IF i > Len(s) THEN Len(s)
  ELSE LET order == sortTxsByBlockTime(s[i], s[i - 1])
       IN  IF (descending /\ order >= 0) \/ (~descending /\ order < 0)
           THEN i - 1
           ELSE V8RunEnd(s, i + 1, descending)

Reverse(s) == [i \in 1..Len(s) |-> s[Len(s) + 1 - i]]

\* the position (0-based) binary insertion gives pivot among s[1..right]
RECURSIVE V8BinarySearch(_, _, _, _)
V8BinarySearch(s, pivot, left, right) ==
  IF left >= right THEN left
  ELSE LET mid == left + ((right - left) \div 2)
       IN  IF sortTxsByBlockTime(pivot, s[mid + 1]) < 0
           THEN V8BinarySearch(s, pivot, left, mid)
           ELSE V8BinarySearch(s, pivot, mid + 1, right)

\* start is the 1-based index of the first element not yet inserted
RECURSIVE V8BinaryInsertionSort(_, _)
V8BinaryInsertionSort(s, start) ==
  IF start > Len(s) THEN s
  ELSE LET pivot == s[start]
           left == V8BinarySearch(s, pivot, 0, start - 1)
       IN  V8BinaryInsertionSort(
             SubSeq(s, 1, left) \o <<pivot>> \o SubSeq(s, left + 1, start - 1)
               \o SubSeq(s, start + 1, Len(s)),
             start + 1)

V8Sort(s) ==
  IF Len(s) < 2 THEN s
  ELSE LET descending == sortTxsByBlockTime(s[2], s[1]) < 0
           runLength == V8RunEnd(s, 3, descending)
           made == IF descending
                   THEN Reverse(SubSeq(s, 1, runLength))
                          \o SubSeq(s, runLength + 1, Len(s))
                   ELSE s
       IN  V8BinaryInsertionSort(made, runLength + 1)

\* SpiderMonkey: insertion sort; item moves left past every element that
\* compares greater than it.
RECURSIVE SMInsertAt(_, _, _)
SMInsertAt(s, item, j) ==
  IF j < 1 THEN 0
  ELSE IF sortTxsByBlockTime(s[j], item) <= 0 THEN j
  ELSE SMInsertAt(s, item, j - 1)

RECURSIVE SMInsertionSort(_, _)
SMInsertionSort(s, i) ==
  IF i > Len(s) THEN s
  ELSE LET item == s[i]
           at == SMInsertAt(s, item, i - 1)
       IN  SMInsertionSort(
             SubSeq(s, 1, at) \o <<item>> \o SubSeq(s, at + 1, i - 1)
               \o SubSeq(s, i + 1, Len(s)),
             i + 1)

\* JavaScriptCore: bottom-up merge sort; the right run's head is taken when
\* it compares less than the left run's head.
RECURSIVE JSCMerge(_, _)
JSCMerge(left, right) ==
  IF right = <<>> THEN left
  ELSE IF left = <<>> THEN right
  ELSE IF sortTxsByBlockTime(Head(right), Head(left)) < 0
  THEN <<Head(right)>> \o JSCMerge(left, Tail(right))
  ELSE <<Head(left)>> \o JSCMerge(Tail(left), right)

MinOf(a, b) == IF a < b THEN a ELSE b

RECURSIVE JSCPass(_, _, _)
JSCPass(s, srcIndex, width) ==
  IF srcIndex > Len(s) THEN <<>>
  ELSE LET leftEnd == MinOf(srcIndex + width - 1, Len(s))
           rightEnd == MinOf(leftEnd + width, Len(s))
       IN  JSCMerge(SubSeq(s, srcIndex, leftEnd),
                    SubSeq(s, leftEnd + 1, rightEnd))
             \o JSCPass(s, srcIndex + 2 * width, width)

RECURSIVE JSCMergeSort(_, _)
JSCMergeSort(s, width) ==
  IF width >= Len(s) THEN s
  ELSE JSCMergeSort(JSCPass(s, 1, width), 2 * width)

Engines == {"v8", "spidermonkey", "jsc"}

\* SortWith losing the events that have no block time
SortDroppingUntimed(e, s) ==
  V8Sort(SelectSeq(s, LAMBDA x : x.tx.blockTime # NoTime))

\* Array.prototype.sort of the engine e
SortWith(e, s) ==
  CASE e = "v8" -> V8Sort(s)
    [] e = "spidermonkey" -> SMInsertionSort(s, 2)
    [] e = "jsc" -> JSCMergeSort(s, 1)

\* lines 132-135: concat, then sort
Assembled(e, scanned, classified) == SortWith(e, scanned \o classified)

\* ------------------------------------------------------------------- the state

VARIABLES
  rpcTxs,               \* ledger: address -> the transactions the node returns
  rpcOwner,             \* ledger: token account -> its owner, Null when closed
  engine,               \* the JS engine the build runs on, "unset" until it sorts
  pc,                   \* where the query is
  run,                  \* 1 for the first call, 2 for the call repeated
  txs,                  \* the list fetched last
  cursor,               \* index of the next handler call over txs
  tokenAccounts,        \* scanMintAddressHistory: tokenAccounts
  mintAddressHistory,   \* scanMintAddressHistory: mintAddressHistory
  scanOrigin,           \* history: the Pool name behind each Scanner event
  tokenAccountsList,    \* scanTokenAccountList: tokenAccountsList
  acctIdx,              \* index of the current account in tokenAccountsList
  txHistory,            \* scanTokenAccountList: txHistory
  txOrigin,             \* history: where each Classifier event was matched
  checkedTransactions,  \* scanTokenAccountList: checkedTransactions
  fullHistory,          \* what the call returned
  prevResult,           \* what the first call returned
  rpcLog,               \* history: the requests the call has awaited, in order
  scanPass,             \* history: the pass that produced each Scanner event
  resultArg,            \* matchResult: the argument x
  matcherArg,           \* matchResult: the argument matcher
  handlerCalls,         \* history: the handler calls matchResult has made
  returned,             \* what matchResult returned, Pending before the call
  inFlight,             \* the token accounts whose history fetch is outstanding
  currentAddress,       \* NftDetails: the address of the route, NoAddress before
  tokenHistoryState,    \* NftDetails: tokenHistoryState
  pendingFetches,       \* NftDetails: the history fetches not yet settled
  navigations           \* history: the addresses the page has been given

vars ==
  << rpcTxs, rpcOwner, engine, pc, run, txs, cursor, tokenAccounts,
     mintAddressHistory, scanOrigin, tokenAccountsList, acctIdx, txHistory,
     txOrigin, checkedTransactions, fullHistory, prevResult, rpcLog, scanPass,
     resultArg, matcherArg, handlerCalls, returned, inFlight, currentAddress,
     tokenHistoryState, pendingFetches, navigations >>

\* the argument of fetchActivityHistoryForMintAddress
address == "MINT"

\* ------------------------------------------------------------------ the ledgers

Perms(S) ==
  { f \in [1..Cardinality(S) -> S] : \A i, j \in 1..Cardinality(S) :
                                        f[i] = f[j] => i = j }

SeqsUpTo(S, n) == UNION { [1..k -> S] : k \in 0..n }

MintTx == Tx(<<"sigMint">>, 1, <<"mintTo">>, <<>>)

ListTx == Tx(<<"sigL">>, 2, <<>>, << <<"saList">> >>)

CancelTx == Tx(<<"sigC">>, 3, <<>>, << <<"saMEA">> >>)

BothOwned == [T1 |-> "A", T2 |-> "B"]

Ledger(mint, t1, t2) == [MINT |-> mint, T1 |-> t1, T2 |-> t2]

\* Group family: one token account whose history is one transaction with one
\* inner-instruction group, every group over GroupAlphabet up to MaxGroupLen.
GroupAlphabet ==
  { "saList", "saME", "approveD", "approveO", "revoke",
    "solB", "solC", "tokD", "tokMS" }

Groups == UNION { [1..k -> GroupAlphabet] : k \in 1..MaxGroupLen }

GroupTx(g) == Tx(<<"sigG">>, 2, <<>>, <<g>>)

GroupLedgers == { Ledger(<<MintTx>>, <<GroupTx(g)>>, <<>>) : g \in Groups }

\* Price example: the three legs 9_500_000_000, 500_000_000 and 1_000_000 with
\* the setAuthority that makes the group a sale, in every order.
ExampleGroups == Perms({"saME", "leg9500", "leg500", "leg1"})

ExampleLedgers ==
  { Ledger(<<MintTx>>, <<GroupTx(g)>>, <<>>) : g \in ExampleGroups }

\* Shared family: two token accounts (mint destination T1, transfer
\* destination T2) whose histories share transactions.  SaleTx has two
\* signatures, two groups and several matching instructions, next to an
\* unparsed instruction and an approve that is no listing.
SaleTx ==
  Tx(<<"sigS", "sigS2">>, 4, <<>>,
     << <<"raw", "saME", "tokD", "solB", "solC">>,
        <<"approveO", "saME", "revoke">> >>)

TransferTx == Tx(<<"sigX">>, 1, <<"createT2", "xferT2">>, <<>>)

SharedTxs == {ListTx, SaleTx, NullTx}

MaxShared == 2

SharedLedgers ==
  { Ledger(<<TransferTx, MintTx>>, h1, h2) :
      h1 \in SeqsUpTo(SharedTxs, MaxShared),
      h2 \in SeqsUpTo(SharedTxs, MaxShared) }

\* Scanner family: the mint address's own history drawn over ScanTxs.
ScanTxs ==
  { MintTx,
    Tx(<<"sigMI">>, 1, <<"raw">>, << <<"mintToMulti", "mintToBoth">> >>),
    TransferTx,
    Tx(<<"sigX2">>, 3, <<"xferT2">>, <<>>),
    Tx(<<"sigO">>, 2, <<"mintToOther", "createOther", "xferOther">>, <<>>),
    Tx(<<"sigXB">>, 4, <<"createOther">>, << <<"xferT1", "createT2">> >>) }

MaxScan == 2

ScanLedgers ==
  { Ledger(h, <<ListTx>>, <<>>) : h \in SeqsUpTo(ScanTxs, MaxScan) }

Owners == [{"T1", "T2"} -> {Null, "B"}]

\* Ordering family: up to MaxHist listings with any block times, known or
\* not.  T1 is discovered through a create instruction, which emits no event,
\* so the final history is exactly the drawn list.
BlockTimes == {NoTime} \cup 1..MaxBlockTime

SigNames == <<"s1", "s2", "s3", "s4", "s5", "s6">>

TimedHistories ==
  UNION { { [i \in 1..k |-> Tx(<<SigNames[i]>>, times[i], <<>>, << <<"saList">> >>)] :
              times \in [1..k -> BlockTimes] } : k \in 0..MaxHist }

CreateOnlyTx == Tx(<<"sigCr">>, 1, <<"createT1">>, <<>>)

OrderLedgers == { Ledger(<<CreateOnlyTx>>, h, <<>>) : h \in TimedHistories }

\* Hidden family: the history of T1 holds a transfer of the token to T2 that
\* the history of the mint address does not hold (the node returns the latest
\* signatures of an address only), and T2 has a history of its own.
MoveTx == Tx(<<"sigMv">>, 2, <<"createT2">>, << <<"xferT2">> >>)

HiddenLedgers == { Ledger(<<MintTx>>, <<MoveTx, ListTx>>, <<CancelTx>>) }

\* Scenario: a listing by A, its cancellation, and a sale to B whose two
\* lamport transfers sum to 11_000_000_000, in every order of the history
\* and with the transfers paid by B or by somebody else.
ScenarioSaleGroups ==
  { <<"saME", p, f>> : p \in {"payB", "payC"}, f \in {"feeB", "feeC"} }
    \cup { <<p, f, "saME">> : p \in {"payB", "payC"}, f \in {"feeB", "feeC"} }

ScenarioSaleTx(g) == Tx(<<"sigSale">>, 4, <<>>, <<g>>)

ScenarioHistories ==
  UNION { Perms({ListTx, CancelTx, ScenarioSaleTx(g)}) : g \in ScenarioSaleGroups }

ScenarioLedgers == { Ledger(<<MintTx>>, h, <<>>) : h \in ScenarioHistories }

\* ------------------------------------------------------------ the Result type

\* Ok, Err and ResultLoading build the three variants; the keys an object has
\* are the domain of the record.
Ok(value) == [ok |-> TRUE, value |-> value]

Err(error) == [ok |-> FALSE, error |-> error]

ResultLoading == [ok |-> FALSE, loading |-> TRUE]

\* largest value an Ok or an Err carries
MaxCarried == 2

Carried == 0..MaxCarried

Results == { Ok(v) : v \in Carried } \cup { Err(e) : e \in Carried }
             \cup { ResultLoading }

\* what a handler returns
HandlerResults == {"r0", "r1"}

\* A ResultMatcher: ok and err map the carried value to what they return,
\* loading takes no argument.
Matchers ==
  [ ok : [Carried -> HandlerResults], err : [Carried -> HandlerResults],
    loading : HandlerResults ]

\* one call of a handler and what the call returned
HandlerCall(handler, args, value) ==
  [handler |-> handler, args |-> args, value |-> value]

\* the outcome of matchResult: the handler calls it made and what it returned
Outcome(calls, value) == [calls |-> calls, returned |-> value]

\* assertUnreachable throws
Panic == "Panic!"

Pending == "pending"

\* matchResult told apart by the ok flag alone
matchResultByOkFlag(x, matcher) ==
  IF x.ok
  THEN Outcome(<<HandlerCall("ok", <<x.value>>, matcher.ok[x.value])>>,
               matcher.ok[x.value])
  ELSE IF "error" \in DOMAIN x
  THEN Outcome(<<HandlerCall("err", <<x.error>>, matcher.err[x.error])>>,
               matcher.err[x.error])
  ELSE Outcome(<<HandlerCall("err", <<>>, matcher.err[0])>>, matcher.err[0])

matchResult(x, matcher) ==
  IF "loading" \in DOMAIN x
  THEN Outcome(<<HandlerCall("loading", <<>>, matcher.loading)>>, matcher.loading)
  ELSE IF "error" \in DOMAIN x
  THEN Outcome(<<HandlerCall("err", <<x.error>>, matcher.err[x.error])>>,
               matcher.err[x.error])
  ELSE IF x.ok = TRUE
  THEN Outcome(<<HandlerCall("ok", <<x.value>>, matcher.ok[x.value])>>,
               matcher.ok[x.value])
  ELSE Outcome(<<>>, Panic)

\* no call of matchResult is under way
NoResultCall ==
  /\ resultArg = ResultLoading
  /\ matcherArg = [ok |-> [v \in Carried |-> "r0"], err |-> [v \in Carried |-> "r0"],
                   loading |-> "r0"]
  /\ handlerCalls = <<>>
  /\ returned = Pending

\* ------------------------------------------------------- the NftDetails page

\* the route has given the page no address yet
NoAddress == "none"

\* the addresses the route gives the page
PageAddresses == {"A", "B", "C"}

\* how often the address of the page changes, the mount included
MaxNavigations == 3

\* the NftDetails component is not mounted
NoPage ==
  /\ currentAddress = NoAddress
  /\ tokenHistoryState = ResultLoading
  /\ pendingFetches = {}
  /\ navigations = <<>>

\* one call of fetchHistory of the effect of lines 484-495: the address it
\* closed over and the render that started it
HistoryFetch(id, of) == [id |-> id, address |-> of]

\* ------------------------------------------------------------------------ Init

InitProgram ==
  /\ engine = "unset"
  /\ pc = "validate"
  /\ run = 1
  /\ txs = <<>>
  /\ cursor = 1
  /\ tokenAccounts = <<>>
  /\ mintAddressHistory = <<>>
  /\ scanOrigin = <<>>
  /\ tokenAccountsList = <<>>
  /\ acctIdx = 1
  /\ txHistory = <<>>
  /\ txOrigin = <<>>
  /\ checkedTransactions = {}
  /\ fullHistory = <<>>
  /\ prevResult = <<>>
  /\ rpcLog = <<>>
  /\ scanPass = <<>>
  /\ inFlight = {}

Init ==
  /\ \/ /\ rpcTxs \in GroupLedgers \cup ExampleLedgers \cup SharedLedgers
                        \cup OrderLedgers \cup ScenarioLedgers
                        \cup HiddenLedgers
        /\ rpcOwner = BothOwned
     \/ /\ rpcTxs \in ScanLedgers
        /\ rpcOwner \in Owners
  /\ InitProgram
  /\ NoResultCall
  /\ NoPage

\* --------------------------------------------------------------------- actions

ledgerVars == <<rpcTxs, rpcOwner>>

scanVars == <<tokenAccounts, mintAddressHistory, scanOrigin, scanPass>>

resultVars == <<resultArg, matcherArg, handlerCalls, returned>>

pageVars == <<currentAddress, tokenHistoryState, pendingFetches, navigations>>

classifyVars == <<tokenAccountsList, txHistory, txOrigin, checkedTransactions>>

\* getParsedAccountInfo(destination): the parsed owner, Null when absent
AccountOwner(destination) ==
  IF destination \in DOMAIN rpcOwner THEN rpcOwner[destination] ELSE Null

\* one awaited request: the metadata probe, a fetch of a transaction history
\* or an account-info lookup; ok is FALSE when it threw
Request(kind, target, ok) == [kind |-> kind, address |-> target, ok |-> ok]

\* lines 220-221: the two passes over the fetched transactions, in call order
MessagePassFirst == <<"scanMessage", "scanInner">>

ScanPasses == <<"scanInner", "scanMessage">>

\* the handler contexts of pass p
PassContexts(p, fetched) ==
  IF p = "scanInner" THEN InnerContexts(fetched) ELSE MessageContexts(fetched)

\* where the Scanner stands when the passes before the k-th are over: in the
\* first pass from the k-th on that has a handler call to make
RECURSIVE PassFrom(_, _)
PassFrom(k, fetched) ==
  IF k > Len(ScanPasses) THEN "scanDone"
  ELSE IF PassContexts(ScanPasses[k], fetched) # <<>> THEN ScanPasses[k]
  ELSE PassFrom(k + 1, fetched)

PassIndex(p) == CHOOSE k \in 1..Len(ScanPasses) : ScanPasses[k] = p

\* AfterFetch with a history of no transactions treated as a failure
EmptyHistoryRejected(fetched) ==
  IF fetched = <<>> THEN "failed"
  ELSE IF InnerContexts(fetched) # <<>> THEN "scanInner"
  ELSE IF MessageContexts(fetched) # <<>> THEN "scanMessage"
  ELSE "scanDone"

\* lines 215-221: where the Scanner stands once the mint's history is there
AfterFetch(fetched) == PassFrom(1, fetched)

\* Validate with the failure of the probe not propagated
ValidateFailureIgnored ==
  /\ pc = "validate"
  /\ pc' = "scanFetch"
  /\ rpcLog' = Append(rpcLog, Request("metadata", address, FALSE))
  /\ UNCHANGED << ledgerVars, resultVars, pageVars, inFlight, engine, run, txs, cursor, scanVars,
                  classifyVars, acctIdx, fullHistory, prevResult >>

\* line 122: await validateMintAddress(address) resolves
Validate ==
  /\ pc = "validate"
  /\ pc' = "scanFetch"
  /\ rpcLog' = Append(rpcLog, Request("metadata", address, TRUE))
  /\ UNCHANGED << ledgerVars, resultVars, pageVars, inFlight, engine, run, txs, cursor, scanVars,
                  classifyVars, acctIdx, fullHistory, prevResult >>

\* line 122: the metadata probe throws
ValidateFails ==
  /\ pc = "validate"
  /\ pc' = "failed"
  /\ rpcLog' = Append(rpcLog, Request("metadata", address, FALSE))
  /\ UNCHANGED << ledgerVars, resultVars, pageVars, inFlight, engine, run, txs, cursor, scanVars,
                  classifyVars, acctIdx, fullHistory, prevResult >>

\* lines 189-190 and 215: fresh accumulators, then the mint address's history
ScanFetch ==
  /\ pc = "scanFetch"
  /\ txs' = rpcTxs[address]
  /\ rpcLog' = Append(rpcLog, Request("history", address, TRUE))
  /\ tokenAccounts' = <<>>
  /\ mintAddressHistory' = <<>>
  /\ scanOrigin' = <<>>
  /\ scanPass' = <<>>
  /\ cursor' = 1
  /\ pc' = AfterFetch(txs')
  /\ UNCHANGED << ledgerVars, resultVars, pageVars, inFlight, engine, run, classifyVars, acctIdx,
                  fullHistory, prevResult >>

\* lines 193-212: one call of parseInstruction, on the context at cursor of
\* the pass the Scanner is in
ScanStep(contexts, after) ==
  /\ cursor <= Len(contexts)
  /\ LET ctx == contexts[cursor]
         result == parseInstruction(ctx, address, AccountOwner(ctx.ix.destination))
     IN  /\ mintAddressHistory' = mintAddressHistory \o result.history
         /\ tokenAccounts' = tokenAccounts \o result.tokenAccounts
         /\ scanOrigin' = scanOrigin \o [k \in 1..Len(result.history) |-> ctx.name]
         /\ scanPass' = scanPass \o [k \in 1..Len(result.history) |-> pc]
         /\ rpcLog' = IF NeedsAccountInfo(ctx, address)
                      THEN Append(rpcLog,
                             Request("accountInfo", ctx.ix.destination, TRUE))
                      ELSE rpcLog
  /\ IF cursor < Len(contexts)
     THEN cursor' = cursor + 1 /\ pc' = pc
     ELSE cursor' = 1 /\ pc' = after
  /\ UNCHANGED << ledgerVars, resultVars, pageVars, inFlight, engine, run, txs, classifyVars, acctIdx,
                  fullHistory, prevResult >>

\* line 220: the pass over the inner instructions
ScanInner ==
  /\ pc = "scanInner"
  /\ ScanStep(InnerContexts(txs), PassFrom(PassIndex("scanInner") + 1, txs))

\* line 221: the pass over the top-level instructions
ScanMessage ==
  /\ pc = "scanMessage"
  /\ ScanStep(MessageContexts(txs), PassFrom(PassIndex("scanMessage") + 1, txs))

\* lines 333-335: the account-info lookup of the Transfer matcher throws
AccountInfoFails ==
  /\ pc \in {"scanInner", "scanMessage"}
  /\ NeedsAccountInfo(PassContexts(pc, txs)[cursor], address)
  /\ rpcLog' = Append(rpcLog,
       Request("accountInfo", PassContexts(pc, txs)[cursor].ix.destination, FALSE))
  /\ pc' = "failed"
  /\ UNCHANGED << ledgerVars, resultVars, pageVars, inFlight, engine, run, txs, cursor, scanVars,
                  classifyVars, acctIdx, fullHistory, prevResult >>

\* lines 238-240: scanTokenAccountList is entered
StartClassifier ==
  /\ pc = "scanDone"
  /\ txHistory' = <<>>
  /\ txOrigin' = <<>>
  /\ checkedTransactions' = NewCheckedTransactions(checkedTransactions)
  /\ tokenAccountsList' = Dedupe(tokenAccounts)
  /\ acctIdx' = 1
  /\ pc' = IF tokenAccountsList' = <<>> THEN "assemble" ELSE "classifyFetch"
  /\ UNCHANGED << ledgerVars, resultVars, pageVars, inFlight, engine, run, txs, cursor, scanVars,
                  fullHistory, prevResult, rpcLog >>

\* the loop of lines 274-277 moves on from the account at acctIdx
NextAccount ==
  IF acctIdx < Len(tokenAccountsList)
  THEN acctIdx' = acctIdx + 1 /\ pc' = "classifyFetch"
  ELSE acctIdx' = acctIdx /\ pc' = "assemble"

\* the address whose history the call is about to fetch
FetchTarget ==
  IF pc = "scanFetch" THEN address ELSE tokenAccountsList[acctIdx]

\* ClassifyIssue with the fetches of all the accounts issued together
IssueEveryAccount ==
  /\ pc = "classifyFetch"
  /\ inFlight' = inFlight \cup Range(tokenAccountsList)
  /\ pc' = "classifyAwait"
  /\ UNCHANGED << ledgerVars, resultVars, pageVars, engine, run, txs, cursor,
                  scanVars, classifyVars, acctIdx, fullHistory, prevResult,
                  rpcLog >>

\* line 275: fetchAllTransactionsForAddress(tokenAccountAddress) is called for
\* the account at acctIdx and awaited
ClassifyIssue ==
  /\ pc = "classifyFetch"
  /\ inFlight' = inFlight \cup {tokenAccountsList[acctIdx]}
  /\ pc' = "classifyAwait"
  /\ UNCHANGED << ledgerVars, resultVars, pageVars, engine, run, txs, cursor,
                  scanVars, classifyVars, acctIdx, fullHistory, prevResult,
                  rpcLog >>

\* line 275: the history of the account at acctIdx arrives
ClassifyFetch ==
  /\ pc = "classifyAwait"
  /\ txs' = rpcTxs[tokenAccountsList[acctIdx]]
  /\ rpcLog' = Append(rpcLog, Request("history", FetchTarget, TRUE))
  /\ inFlight' = inFlight \ {FetchTarget}
  /\ cursor' = 1
  /\ IF InnerContexts(txs') # <<>>
     THEN acctIdx' = acctIdx /\ pc' = "classifyParse"
     ELSE NextAccount
  /\ UNCHANGED << ledgerVars, resultVars, pageVars, engine, run, scanVars,
                  classifyVars, fullHistory, prevResult >>

\* FetchFails with the account whose fetch threw skipped and the loop going on
FailedAccountSkipped ==
  /\ pc = "classifyAwait"
  /\ rpcLog' = Append(rpcLog, Request("history", FetchTarget, FALSE))
  /\ inFlight' = inFlight \ {FetchTarget}
  /\ NextAccount
  /\ UNCHANGED << ledgerVars, resultVars, pageVars, engine, run, txs, cursor, scanVars,
                  classifyVars, fullHistory, prevResult >>

\* lines 85-87, 215 and 275: a fetch of a transaction history throws
FetchFails ==
  /\ pc \in {"scanFetch", "classifyAwait"}
  /\ rpcLog' = Append(rpcLog, Request("history", FetchTarget, FALSE))
  /\ inFlight' = inFlight \ {FetchTarget}
  /\ pc' = "failed"
  /\ UNCHANGED << ledgerVars, resultVars, pageVars, engine, run, txs, cursor, scanVars,
                  classifyVars, acctIdx, fullHistory, prevResult >>

\* ClassifierTokenAccounts with the Scanner's matchers run on the context too
DiscoveredByClassifier(accounts, ctx) ==
  accounts \o parseInstruction(ctx, address, Null).tokenAccounts

\* lines 243-268: the list the loop of line 274 runs over, after a call of
\* parseInnerInstruction on ctx; the handler does not touch it
ClassifierTokenAccounts(accounts, ctx) == accounts

\* lines 243-268: one call of parseInnerInstruction, on the context at cursor
ParseInnerInstruction ==
  /\ pc = "classifyParse"
  /\ cursor <= Len(InnerContexts(txs))
  /\ LET ctx == InnerContexts(txs)[cursor]
         matchedTx == MatchedTx(ctx)
         signature == Join(matchedTx.value.signatures)
     IN  IF matchedTx.some /\ ~IsChecked(checkedTransactions, signature)
         THEN /\ checkedTransactions' = checkedTransactions \cup {signature}
              /\ txHistory' = Append(txHistory, matchedTx.value)
              /\ txOrigin' = Append(txOrigin,
                   [ signature |-> signature, group |-> ctx.group,
                     innerInstruction |-> ctx.innerInstruction,
                     name |-> ctx.name, account |-> acctIdx ])
         ELSE UNCHANGED <<checkedTransactions, txHistory, txOrigin>>
  /\ tokenAccountsList' =
       ClassifierTokenAccounts(tokenAccountsList, InnerContexts(txs)[cursor])
  /\ IF cursor < Len(InnerContexts(txs))
     THEN cursor' = cursor + 1 /\ acctIdx' = acctIdx /\ pc' = pc
     ELSE cursor' = 1 /\ NextAccount
  /\ UNCHANGED << ledgerVars, resultVars, pageVars, inFlight, engine, run, txs,
                  scanVars, fullHistory, prevResult, rpcLog >>

\* lines 132-137: concat, sort, return
Assemble ==
  /\ pc = "assemble"
  /\ \E e \in Engines :
       /\ engine \in {"unset", e}
       /\ engine' = e
       /\ fullHistory' = Assembled(e, mintAddressHistory, txHistory)
  /\ pc' = "done"
  /\ UNCHANGED << ledgerVars, resultVars, pageVars, inFlight, run, txs, cursor, scanVars,
                  classifyVars, acctIdx, prevResult, rpcLog >>

\* the caller calls fetchActivityHistoryForMintAddress(address) again
Rerun ==
  /\ pc = "done"
  /\ run = 1
  /\ run' = 2
  /\ prevResult' = fullHistory
  /\ fullHistory' = <<>>
  /\ txs' = <<>>
  /\ rpcLog' = <<>>
  /\ pc' = "validate"
  /\ UNCHANGED << ledgerVars, resultVars, pageVars, inFlight, engine, cursor, scanVars, classifyVars,
                  acctIdx >>

Next ==
  \/ Validate
  \/ ValidateFails
  \/ ScanFetch
  \/ FetchFails
  \/ ScanInner
  \/ ScanMessage
  \/ AccountInfoFails
  \/ StartClassifier
  \/ ClassifyIssue
  \/ ClassifyFetch
  \/ ParseInnerInstruction
  \/ Assemble

\* one call of fetchActivityHistoryForMintAddress, over every ledger
Spec == Init /\ [][Next]_vars

\* the call made twice against the same ledger
InitTwice ==
  /\ \/ /\ rpcTxs \in SharedLedgers \cup OrderLedgers \cup ScenarioLedgers
        /\ rpcOwner = BothOwned
     \/ /\ rpcTxs \in ScanLedgers
        /\ rpcOwner \in Owners
  /\ InitProgram
  /\ NoResultCall
  /\ NoPage

NextTwice ==
  \/ Next
  \/ Rerun

SpecTwice == InitTwice /\ [][NextTwice]_vars

\* a caller calls matchResult(x, matcher)
MatchResult ==
  /\ returned = Pending
  /\ handlerCalls' = handlerCalls \o matchResult(resultArg, matcherArg).calls
  /\ returned' = matchResult(resultArg, matcherArg).returned
  /\ UNCHANGED << ledgerVars, pageVars, inFlight, resultArg, matcherArg, engine,
                  pc, run, txs, cursor, scanVars, classifyVars, acctIdx,
                  fullHistory, prevResult, rpcLog >>

\* one call of matchResult, over every Result and every matcher
InitResult ==
  /\ rpcTxs = Ledger(<<>>, <<>>, <<>>)
  /\ rpcOwner = BothOwned
  /\ InitProgram
  /\ NoPage
  /\ resultArg \in Results
  /\ matcherArg \in Matchers
  /\ handlerCalls = <<>>
  /\ returned = Pending

NextResult == MatchResult

SpecResult == InitResult /\ [][NextResult]_vars

\* NftDetails, lines 463-467 and 483-495: the route gives the page the
\* address a; the effects that depend on the address run, the first resets
\* the state to loading, the last starts a fetch of the history of a
Navigate ==
  /\ Len(navigations) < MaxNavigations
  /\ \E a \in PageAddresses \ {currentAddress} :
       /\ currentAddress' = a
       /\ navigations' = Append(navigations, a)
       /\ pendingFetches' =
            pendingFetches \cup {HistoryFetch(Len(navigations) + 1, a)}
  /\ tokenHistoryState' = ResultLoading
  /\ UNCHANGED << ledgerVars, resultVars, inFlight, engine, pc, run, txs, cursor,
                  scanVars, classifyVars, acctIdx, fullHistory, prevResult,
                  rpcLog >>

\* lines 487-488: a fetch resolves; the history it carries is named by its
\* address
HistoryResolves ==
  /\ \E f \in pendingFetches :
       /\ tokenHistoryState' = Ok(f.address)
       /\ pendingFetches' = pendingFetches \ {f}
  /\ UNCHANGED << ledgerVars, resultVars, inFlight, engine, pc, run, txs, cursor,
                  scanVars, classifyVars, acctIdx, fullHistory, prevResult,
                  rpcLog, currentAddress, navigations >>

\* lines 489-490: a fetch rejects; the error is named by its address
HistoryRejects ==
  /\ \E f \in pendingFetches :
       /\ tokenHistoryState' = Err(f.address)
       /\ pendingFetches' = pendingFetches \ {f}
  /\ UNCHANGED << ledgerVars, resultVars, inFlight, engine, pc, run, txs, cursor,
                  scanVars, classifyVars, acctIdx, fullHistory, prevResult,
                  rpcLog, currentAddress, navigations >>

\* the NftDetails page over every course of navigations and settlements
InitPage ==
  /\ rpcTxs = Ledger(<<>>, <<>>, <<>>)
  /\ rpcOwner = BothOwned
  /\ InitProgram
  /\ NoResultCall
  /\ NoPage

NextPage ==
  \/ Navigate
  \/ HistoryResolves
  \/ HistoryRejects

SpecPage == InitPage /\ [][NextPage]_vars

\* ============================================================== properties

\* the individual instructions of group g (of transaction tx) that satisfy a
\* Sale, Listing or CancelListing pattern on their own
MatchingPositions(tx, g) ==
  { k \in 1..Len(g) :
      /\ Pool[g[k]].parsed
      /\ MatchedTx([tx |-> tx, ix |-> Pool[g[k]], innerInstruction |-> g]).some }

ClassifierDone == pc \in {"assemble", "done"}

\* C1: the Classifier's output holds at most one marketplace event per
\* transaction signature, also when the transaction is in the histories of
\* several token accounts and several of its instructions match a matcher.
C1_OneEventPerSignature ==
  \A i, j \in 1..Len(txHistory) :
     txHistory[i].signatures = txHistory[j].signatures => i = j

\* C1 witness: SaleTx (several matching instructions, two groups) was in the
\* histories of both token accounts, both were classified, and its event is
\* in the output.
C1_Witness ==
  /\ pc = "assemble"
  /\ tokenAccountsList = <<"T2", "T1">>
  /\ SaleTx \in Range(rpcTxs.T1) /\ SaleTx \in Range(rpcTxs.T2)
  /\ Cardinality(MatchingPositions(SaleTx, SaleTx.innerInstructions[1])) > 1
  /\ \E i \in 1..Len(txHistory) : txHistory[i].signatures = SaleTx.signatures

\* C2: no inner-instruction group of a processed transaction has more than
\* one marketplace event, however many of its instructions match.
C2_OneEventPerGroup ==
  \A i, j \in 1..Len(txOrigin) :
     ( /\ txHistory[i].tx = txHistory[j].tx
       /\ txOrigin[i].group = txOrigin[j].group ) => i = j

\* C2 witness: a group with at least two instructions that match on their own
\* was processed to its end and has exactly one event.
C2_Witness ==
  /\ pc = "assemble"
  /\ Len(txHistory) = 1
  /\ Cardinality(MatchingPositions(txHistory[1].tx,
                                   txOrigin[1].innerInstruction)) >= 2

\* a parsed setAuthority whose current authority is the listing account
HasMarketplaceHandoff(g) ==
  \E k \in 1..Len(g) :
     /\ Pool[g[k]].parsed
     /\ Pool[g[k]].type = "setAuthority"
     /\ Pool[g[k]].authority = MAGIC_EDEN_LISTING_ACCOUNT

\* C3: a group holding a setAuthority from the marketplace listing account is
\* classified as Sale whenever it has more than one instruction, and as
\* CancelListing only when it has exactly one, wherever the setAuthority
\* stands and whatever accompanies it.
C3_HandoffGroupIsSale ==
  \A i \in 1..Len(txHistory) :
     HasMarketplaceHandoff(txOrigin[i].innerInstruction) =>
       /\ Len(txOrigin[i].innerInstruction) > 1 => txHistory[i].type = "Sale"
       /\ txHistory[i].type = "CancelListing"
            => Len(txOrigin[i].innerInstruction) = 1

\* the lamport legs of a group: its parsed "transfer" instructions that carry
\* a numeric lamports amount
Legs(g) ==
  { k \in 1..Len(g) :
      /\ Pool[g[k]].parsed
      /\ Pool[g[k]].type = "transfer"
      /\ Pool[g[k]].lamports.kind = "number" }

RECURSIVE SumOver(_, _, _)
SumOver(g, S, field) ==
  IF S = {} THEN 0
  ELSE LET k == CHOOSE x \in S : TRUE
       IN  Pool[g[k]].lamports[field] + SumOver(g, S \ {k}, field)

\* the sum of the legs of g, each counted once, as an exact amount
LegTotal(g) ==
  [ giga |-> SumOver(g, Legs(g), "giga") + (SumOver(g, Legs(g), "units") \div GIGA),
    units |-> SumOver(g, Legs(g), "units") % GIGA ]

\* C4: the lamports of a Sale event is the sum of the lamport amounts of all
\* "transfer" instructions of its group; for the legs 9_500_000_000,
\* 500_000_000 and 1_000_000 it is 10_001_000_000.
C4_SaleLamportsIsSum ==
  \A i \in 1..Len(txHistory) :
     txHistory[i].type = "Sale" =>
       /\ txHistory[i].lamports = LegTotal(txOrigin[i].innerInstruction)
       /\ txOrigin[i].innerInstruction \in ExampleGroups
            => txHistory[i].lamports = [giga |-> 10, units |-> 1000000]

\* C4 witness: the example group was classified as a Sale of 10_001_000_000.
C4_Witness ==
  /\ pc = "assemble"
  /\ Len(txHistory) = 1
  /\ txHistory[1].type = "Sale"
  /\ txOrigin[1].innerInstruction \in ExampleGroups
  /\ txHistory[1].lamports = [giga |-> 10, units |-> 1000000]

\* C5: the buyer of a Sale event is the source of the first transfer leg of
\* its group, for every group with one or more legs.
C5_BuyerIsFirstLegSource ==
  \A i \in 1..Len(txHistory) :
     LET g == txOrigin[i].innerInstruction
     IN  (txHistory[i].type = "Sale" /\ Legs(g) # {}) =>
            txHistory[i].buyer = Pool[g[Min(Legs(g))]].source

\* what an event says, without its transaction
Brief(e) ==
  CASE e.type = "Sale" -> [type |-> "Sale", who |-> e.buyer, lamports |-> e.lamports]
    [] e.type \in {"Listing", "CancelListing"} ->
         [type |-> e.type, who |-> e.seller, lamports |-> BNZero]
    [] OTHER -> [type |-> e.type, who |-> Undefined, lamports |-> BNZero]

Briefs(h) == [i \in 1..Len(h) |-> Brief(h[i])]

MarketEvents(h) ==
  SelectSeq(h, LAMBDA e : e.type \in {"Listing", "CancelListing", "Sale"})

\* Sale to B for 11_000_000_000, the cancellation by A, the listing by A
ScenarioNewestFirst ==
  << [type |-> "Sale", who |-> "B", lamports |-> [giga |-> 11, units |-> 0]],
     [type |-> "CancelListing", who |-> "A", lamports |-> BNZero],
     [type |-> "Listing", who |-> "A", lamports |-> BNZero] >>

ScenarioOutcome ==
  /\ Len(txHistory) = 3
  /\ Range(Briefs(txHistory)) = Range(ScenarioNewestFirst)
  /\ Briefs(MarketEvents(fullHistory)) = ScenarioNewestFirst

\* the scenario with both lamport transfers sent by B
ScenarioPaidByB ==
  { h \in ScenarioHistories :
      \E i \in 1..3 : h[i].innerInstructions[1] \in
                        { <<"saME", "payB", "feeB">>, <<"payB", "feeB", "saME">> } }

\* C6 as claimed: a listing by A, its cancellation and a setAuthority from the
\* marketplace account to B with two lamport transfers summing
\* 11_000_000_000 yield exactly Listing{A}, CancelListing{A} and
\* Sale{B, 11_000_000_000}, listed newest first.
C6_ScenarioAsClaimed ==
  (pc = "done" /\ rpcTxs.T1 \in ScenarioHistories) => ScenarioOutcome

\* C6 amended: the same when both lamport transfers are sent by B.
C6_ScenarioPaidByB ==
  (pc = "done" /\ rpcTxs.T1 \in ScenarioPaidByB) => ScenarioOutcome

\* C6 witness: the history came oldest first, the sale's setAuthority stands
\* after the transfers, and the query returned the three events.
C6_Witness ==
  /\ pc = "done"
  /\ rpcTxs.T1 = << ListTx, CancelTx, ScenarioSaleTx(<<"payB", "feeB", "saME">>) >>
  /\ ScenarioOutcome

Known(e) == e.tx.blockTime # NoTime

\* C7: in the returned list every adjacent pair with both block times known
\* is in descending order, also when other events have no block time.
C7_AdjacentKnownDescending ==
  pc = "done" =>
    \A i \in 1..(Len(fullHistory) - 1) :
       (Known(fullHistory[i]) /\ Known(fullHistory[i + 1])) =>
          fullHistory[i].tx.blockTime >= fullHistory[i + 1].tx.blockTime

\* C7 witness: a returned list that the sort reordered, with an event without
\* block time and an adjacent pair of different known block times.
C7_Witness ==
  /\ pc = "done"
  /\ fullHistory # mintAddressHistory \o txHistory
  /\ \E i \in 1..Len(fullHistory) : ~Known(fullHistory[i])
  /\ \E i \in 1..(Len(fullHistory) - 1) :
        /\ Known(fullHistory[i]) /\ Known(fullHistory[i + 1])
        /\ fullHistory[i].tx.blockTime > fullHistory[i + 1].tx.blockTime

\* C8: in the returned list no event without block time stands directly
\* before an event with a known block time.
C8_UnknownNeverBeforeKnown ==
  pc = "done" =>
    \A i \in 1..(Len(fullHistory) - 1) :
       ~Known(fullHistory[i]) => ~Known(fullHistory[i + 1])

\* C9: the call repeated against the same ledger returns the list the first
\* call returned, same members in the same order.
C9_RerunIdentical ==
  (run = 2 /\ pc = "done") => fullHistory = prevResult

\* C9 witness: the second call returned, with a marketplace event of a
\* transaction that both token accounts' histories hold.
C9_Witness ==
  /\ run = 2
  /\ pc = "done"
  /\ SaleTx \in Range(rpcTxs.T1) /\ SaleTx \in Range(rpcTxs.T2)
  /\ \E i \in 1..Len(fullHistory) : fullHistory[i].type = "Sale"
  /\ fullHistory = prevResult

ScannerDone ==
  pc \in {"scanDone", "classifyFetch", "classifyAwait", "classifyParse",
          "assemble", "done"}

\* C10: once the Scanner has finished, the mintTo target of every Mint event
\* and the destination of every Transfer event is in tokenAccounts.
C10_TargetsRecorded ==
  ScannerDone =>
    \A i \in 1..Len(mintAddressHistory) :
       /\ mintAddressHistory[i].type = "Mint"
            => Pool[scanOrigin[i]].account \in Range(tokenAccounts)
       /\ mintAddressHistory[i].type = "Transfer"
            => mintAddressHistory[i].destinationTokenAccount \in Range(tokenAccounts)

\* C10 witness: the Scanner finished with a Mint and a Transfer event.
C10_Witness ==
  /\ pc = "scanDone"
  /\ \E i \in 1..Len(mintAddressHistory) : mintAddressHistory[i].type = "Mint"
  /\ \E i \in 1..Len(mintAddressHistory) : mintAddressHistory[i].type = "Transfer"

\* the fetches of a transaction history the call has awaited, in order
HistoryRequests == SelectSeq(rpcLog, LAMBDA r : r.kind = "history")

\* those after the first, which is the fetch of the mint address's history
TokenAccountFetches ==
  IF HistoryRequests = <<>> THEN <<>> ELSE Tail(HistoryRequests)

Addresses(requests) == [i \in 1..Len(requests) |-> requests[i].address]

AllOk(requests) == \A i \in 1..Len(requests) : requests[i].ok

\* C11: within one query no token account's history is fetched twice, and
\* once the Classifier's loop is over every distinct account the Scanner
\* recorded has been fetched, however often it was recorded.
C11_EachAccountFetchedOnce ==
  /\ \A i, j \in 1..Len(TokenAccountFetches) :
        TokenAccountFetches[i].address = TokenAccountFetches[j].address => i = j
  /\ ClassifierDone =>
        Range(Addresses(TokenAccountFetches)) = Range(tokenAccounts)

\* C11 witness: the Scanner recorded one account three times and another
\* once, and the loop over the accounts is over.
C11_Witness ==
  /\ pc = "assemble"
  /\ Cardinality(Range(tokenAccounts)) = 2
  /\ \E a \in Range(tokenAccounts) :
        Cardinality({ i \in 1..Len(tokenAccounts) : tokenAccounts[i] = a }) >= 3
  /\ Len(TokenAccountFetches) = 2

\* C12: for a mint address whose history is empty no token account is
\* discovered, no token-account history is fetched, the event list is empty,
\* and the query does not fail unless the probe or the fetch itself threw.
C12_EmptyHistoryYieldsEmptyList ==
  rpcTxs[address] = <<>> =>
    /\ tokenAccounts = <<>>
    /\ TokenAccountFetches = <<>>
    /\ mintAddressHistory = <<>> /\ txHistory = <<>> /\ fullHistory = <<>>
    /\ pc = "failed" => ~AllOk(rpcLog)

\* C12 witness: the query of a mint address without transactions returned.
C12_Witness ==
  /\ pc = "done"
  /\ rpcTxs[address] = <<>>
  /\ rpcLog = << Request("metadata", address, TRUE),
                 Request("history", address, TRUE) >>
  /\ fullHistory = <<>>

\* the context the Scanner's handler is called with next
CurrentContext == PassContexts(pc, txs)[cursor]

Scanning == pc \in {"scanInner", "scanMessage"}

\* C13: when the handler matches a transferChecked of the queried mint, the
\* transaction has no top-level create instruction and the account-info
\* lookup of the destination returns no account, the Transfer event is added
\* with newOwnerAddress null, the destination is recorded, and the scan goes on.
C13_UnknownOwnerFallback ==
  [][ ( /\ Scanning
        /\ CurrentContext.ix.type = "transferChecked"
        /\ CurrentContext.ix.mint = address
        /\ ~HasCreateIx(CurrentContext.tx)
        /\ rpcOwner[CurrentContext.ix.destination] = Null
        /\ rpcLog' = Append(rpcLog,
             Request("accountInfo", CurrentContext.ix.destination, TRUE)) )
      => /\ mintAddressHistory' = Append(mintAddressHistory,
              [ tx |-> CurrentContext.tx,
                source |-> CurrentContext.ix.source,
                newOwnerAddress |-> Null,
                type |-> "Transfer",
                destinationTokenAccount |-> CurrentContext.ix.destination,
                signatures |-> CurrentContext.tx.signatures ])
         /\ tokenAccounts' = Append(tokenAccounts, CurrentContext.ix.destination)
         /\ pc' \in {"scanInner", "scanMessage", "scanDone"} ]_vars

\* C13 witness: a Transfer with unknown new owner, of a transaction without a
\* create instruction, is followed by a later event, and the Scanner is done.
C13_Witness ==
  /\ pc = "scanDone"
  /\ \E i \in 1..(Len(mintAddressHistory) - 1) :
        /\ mintAddressHistory[i].type = "Transfer"
        /\ mintAddressHistory[i].newOwnerAddress = Null
        /\ ~HasCreateIx(mintAddressHistory[i].tx)
        /\ mintAddressHistory[i].destinationTokenAccount \in Range(tokenAccounts)

\* C14: once a request of the query has thrown the query has failed and no
\* event list is returned; a query that returns has fetched the history of
\* the mint address and of every token account of its list, none skipped.
C14_FailureIsWhole ==
  /\ ~AllOk(rpcLog) => (pc = "failed" /\ fullHistory = <<>>)
  /\ pc = "failed" => fullHistory = <<>>
  /\ pc = "done" =>
        Addresses(HistoryRequests) = <<address>> \o tokenAccountsList

\* C14 witness: the fetch of the second token account's history threw after
\* the first account had given an event.
C14_Witness ==
  /\ pc = "failed"
  /\ acctIdx = 2
  /\ txHistory # <<>>
  /\ rpcLog[Len(rpcLog)] = Request("history", tokenAccountsList[2], FALSE)

\* C15: when the metadata probe of the address throws, the query fails there:
\* the probe is the only request made, no history is fetched and no event
\* is produced.
C15_ProbeFailureStopsQuery ==
  rpcLog # <<>> =>
    /\ rpcLog[1].kind = "metadata"
    /\ ~rpcLog[1].ok =>
         /\ rpcLog = << Request("metadata", address, FALSE) >>
         /\ pc = "failed"
         /\ txs = <<>>
         /\ mintAddressHistory = <<>> /\ txHistory = <<>> /\ fullHistory = <<>>

\* C15 witness: the probe threw for an address that has transactions.
C15_Witness ==
  /\ pc = "failed"
  /\ rpcLog = << Request("metadata", address, FALSE) >>
  /\ rpcTxs[address] # <<>>

\* C16: matchResult calls exactly one handler, the one of the variant of x,
\* with the carried value for Ok and Err and with nothing for ResultLoading,
\* and returns what that handler returned.
C16_OneHandlerByVariant ==
  returned # Pending =>
    /\ Len(handlerCalls) = 1
    /\ returned = handlerCalls[1].value
    /\ \A v \in Carried :
          /\ resultArg = Ok(v) =>
               handlerCalls[1] = HandlerCall("ok", <<v>>, matcherArg.ok[v])
          /\ resultArg = Err(v) =>
               handlerCalls[1] = HandlerCall("err", <<v>>, matcherArg.err[v])
    /\ resultArg = ResultLoading =>
          handlerCalls[1] = HandlerCall("loading", <<>>, matcherArg.loading)

\* C16 witness: matchResult returned for ResultLoading() with a matcher whose
\* loading handler returns something else than its err handler does.
C16_Witness ==
  /\ returned = "r1"
  /\ resultArg = ResultLoading
  /\ matcherArg.loading = "r1"
  /\ \A v \in Carried : matcherArg.err[v] = "r0" /\ matcherArg.ok[v] = "r0"
  /\ handlerCalls = << HandlerCall("loading", <<>>, "r1") >>

Max(S) == CHOOSE x \in S : \A y \in S : x >= y

\* C17: the buyer of a Sale event is the source of the transfer leg that
\* stands last in its group, for every group with one or more legs.
C17_BuyerIsLastLegSource ==
  \A i \in 1..Len(txHistory) :
     LET g == txOrigin[i].innerInstruction
     IN  (txHistory[i].type = "Sale" /\ Legs(g) # {}) =>
            txHistory[i].buyer = Pool[g[Max(Legs(g))]].source

\* C17 witness: a Sale whose group has several legs, the first and the last
\* sent from different accounts.
C17_Witness ==
  /\ pc = "assemble"
  /\ \E i \in 1..Len(txHistory) :
        LET g == txOrigin[i].innerInstruction
        IN  /\ txHistory[i].type = "Sale"
            /\ Cardinality(Legs(g)) >= 2
            /\ Pool[g[Min(Legs(g))]].source # Pool[g[Max(Legs(g))]].source
            /\ txHistory[i].buyer = Pool[g[Max(Legs(g))]].source

AddedEvents ==
  { mintAddressHistory'[k] :
      k \in (Len(mintAddressHistory) + 1)..Len(mintAddressHistory') }

\* C19: a step of the Scanner adds a Mint event only for a mintTo of the
\* queried mint; the minter is the mintAuthority when present and else the
\* multisigMintAuthority when that is present; a mintTo of another mint adds
\* no event and records no account.
C19_MintMatcher ==
  [][ Scanning =>
        LET ix == CurrentContext.ix
        IN  /\ (ix.type = "mintTo" /\ ix.mint = address) =>
                 /\ Len(mintAddressHistory') = Len(mintAddressHistory) + 1
                 /\ \A e \in AddedEvents :
                       /\ e.type = "Mint"
                       /\ ix.mintAuthority # Undefined
                            => e.minter = ix.mintAuthority
                       /\ ( /\ ix.mintAuthority = Undefined
                            /\ ix.multisigMintAuthority # Undefined )
                            => e.minter = ix.multisigMintAuthority
            /\ ~(ix.type = "mintTo" /\ ix.mint = address) =>
                 \A e \in AddedEvents : e.type # "Mint"
            /\ (ix.type = "mintTo" /\ ix.mint # address) =>
                 /\ mintAddressHistory' = mintAddressHistory
                 /\ tokenAccounts' = tokenAccounts ]_vars

\* C19 witness: the Scanner has seen a mintTo with only a multisig authority,
\* one with both authorities and one of another mint.
C19_Witness ==
  /\ pc = "scanDone"
  /\ \E i, j \in 1..Len(mintAddressHistory) :
        /\ scanOrigin[i] = "mintToMulti"
        /\ mintAddressHistory[i].minter = "MSMINTER"
        /\ scanOrigin[j] = "mintToBoth"
        /\ mintAddressHistory[j].minter = "MINTER"
  /\ \E t \in 1..Len(txs) : "mintToOther" \in Range(txs[t].instructions)

\* C20: a step of the Scanner on a create instruction adds no event; it
\* records the created account when the mint is the queried one and records
\* nothing otherwise.
C20_CreateMatcher ==
  [][ (Scanning /\ CurrentContext.ix.type = "create") =>
        /\ mintAddressHistory' = mintAddressHistory
        /\ tokenAccounts' =
             IF CurrentContext.ix.mint = address
             THEN Append(tokenAccounts, CurrentContext.ix.account)
             ELSE tokenAccounts ]_vars

\* C20 witness: the Scanner has seen a create of another mint and a create of
\* the queried mint, whose account it recorded.
C20_Witness ==
  /\ pc = "scanDone"
  /\ \E t \in 1..Len(txs) :
        /\ "createOther" \in Range(txs[t].instructions)
        /\ \E g \in 1..Len(txs[t].innerInstructions) :
              "createT2" \in Range(txs[t].innerInstructions[g])
  /\ "T2" \in Range(tokenAccounts)
  /\ \A i \in 1..Len(scanOrigin) : Pool[scanOrigin[i]].type # "create"

\* the new owner of the Transfer event a step of the Scanner added
AddedTransferOwner ==
  mintAddressHistory'[Len(mintAddressHistory')].newOwnerAddress

\* C21: on a transferChecked of the queried mint the Scanner takes the wallet
\* of a create instruction of the transaction's top-level instructions and
\* makes no account-info lookup; without such an instruction it makes the
\* lookup of the destination, and the new owner is the owner the lookup gave.
C21_OwnerResolutionOrder ==
  [][ ( /\ Scanning
        /\ CurrentContext.ix.type = "transferChecked"
        /\ CurrentContext.ix.mint = address )
      => IF \E k \in 1..Len(CurrentContext.tx.instructions) :
               /\ Pool[CurrentContext.tx.instructions[k]].parsed
               /\ Pool[CurrentContext.tx.instructions[k]].type = "create"
         THEN /\ rpcLog' = rpcLog
              /\ Len(mintAddressHistory') = Len(mintAddressHistory) + 1
              /\ AddedTransferOwner = FindCreateIx(CurrentContext.tx).wallet
         ELSE /\ Len(rpcLog') = Len(rpcLog) + 1
              /\ rpcLog'[Len(rpcLog')].kind = "accountInfo"
              /\ rpcLog'[Len(rpcLog')].address = CurrentContext.ix.destination
              /\ rpcLog'[Len(rpcLog')].ok =>
                   /\ Len(mintAddressHistory') = Len(mintAddressHistory) + 1
                   /\ AddedTransferOwner = rpcOwner[CurrentContext.ix.destination]
    ]_vars

\* C21 witness: the Scanner is done with a Transfer whose owner came from a
\* create instruction, the account's owner on the ledger being another, and
\* a Transfer whose owner came from the lookup.
C21_Witness ==
  /\ pc = "scanDone"
  /\ \E i, j \in 1..Len(mintAddressHistory) :
        /\ mintAddressHistory[i].type = "Transfer"
        /\ HasCreateIx(mintAddressHistory[i].tx)
        /\ mintAddressHistory[i].newOwnerAddress = "C"
        /\ rpcOwner[mintAddressHistory[i].destinationTokenAccount] = "B"
        /\ mintAddressHistory[j].type = "Transfer"
        /\ ~HasCreateIx(mintAddressHistory[j].tx)
        /\ mintAddressHistory[j].newOwnerAddress = "B"
        /\ Request("accountInfo", mintAddressHistory[j].destinationTokenAccount,
                   TRUE) \in Range(rpcLog)

\* ---- the patterns of the three marketplace events, on one instruction ix of
\* a group g

SaleTransferIx(ix) ==
  /\ ix.type = "transfer"
  /\ \/ ix.authority = DELEGATE_ADDRESS
     \/ ix.multisigAuthority \in MULTI_SIG_ADDRESSES

SalePattern(ix, g) ==
  \/ /\ ix.type = "setAuthority"
     /\ ix.authority = MAGIC_EDEN_LISTING_ACCOUNT
     /\ Len(g) > 1
  \/ SaleTransferIx(ix) /\ Len(g) > 2

ListingPattern(ix) ==
  \/ ix.type = "approve" /\ ix.delegate = DELEGATE_ADDRESS
  \/ ix.type = "setAuthority" /\ ix.newAuthority = MAGIC_EDEN_LISTING_ACCOUNT

CancelPattern(ix, g) ==
  \/ ix.type = "revoke"
  \/ /\ ix.type = "setAuthority"
     /\ ix.authority = MAGIC_EDEN_LISTING_ACCOUNT
     /\ Len(g) = 1

\* no instruction of g satisfies a pattern
NoPattern(g) ==
  \A k \in 1..Len(g) :
     Pool[g[k]].parsed =>
       /\ ~SalePattern(Pool[g[k]], g)
       /\ ~ListingPattern(Pool[g[k]])
       /\ ~CancelPattern(Pool[g[k]], g)

\* the Classifier's handler is about to be called
Classifying == pc = "classifyParse"

\* the context it is called with, and whether its transaction has no event yet
ClassifyContext == InnerContexts(txs)[cursor]

Fresh == Join(ClassifyContext.tx.signatures) \notin checkedTransactions

\* the step added exactly one event to the Classifier's output
AddedOne ==
  /\ Len(txHistory') = Len(txHistory) + 1
  /\ SubSeq(txHistory', 1, Len(txHistory)) = txHistory

AddedEvent == txHistory'[Len(txHistory')]

\* C22: a transfer whose authority is the delegate address, or whose multisig
\* authority is in the multisig set, gives a Sale when its group has more
\* than two instructions and gives no event in a group of one or two.
C22_TransferSaleNeedsThree ==
  [][ (Classifying /\ Fresh /\ SaleTransferIx(ClassifyContext.ix))
      => IF Len(ClassifyContext.innerInstruction) > 2
         THEN AddedOne /\ AddedEvent.type = "Sale"
         ELSE txHistory' = txHistory ]_vars

\* C22 witness: a group of three was classified as Sale on its transfer with
\* a multisig authority.
C22_Witness ==
  /\ pc = "assemble"
  /\ Len(txHistory) = 1
  /\ txHistory[1].type = "Sale"
  /\ txOrigin[1].name = "tokMS"
  /\ Len(txOrigin[1].innerInstruction) = 3

\* C23: when no Sale is matched, the handler gives a Listing for an approve
\* to the delegate address (seller the owner) and for a setAuthority to the
\* listing account (seller the prior authority), for nothing else, and for an
\* approve to another delegate it gives no event.
C23_ListingMatcher ==
  [][ (Classifying /\ Fresh)
      => LET ix == ClassifyContext.ix
             g == ClassifyContext.innerInstruction
         IN  /\ (ListingPattern(ix) /\ ~SalePattern(ix, g)) =>
                  /\ AddedOne
                  /\ AddedEvent.type = "Listing"
                  /\ AddedEvent.seller =
                       IF ix.type = "approve" THEN ix.owner ELSE ix.authority
             /\ (Len(txHistory') > Len(txHistory) /\ AddedEvent.type = "Listing")
                  => ListingPattern(ix)
             /\ (ix.type = "approve" /\ ix.delegate # DELEGATE_ADDRESS)
                  => txHistory' = txHistory ]_vars

\* C23 witness: a group that starts with an approve to another delegate was
\* classified as Listing on its approve to the delegate address.
C23_Witness ==
  /\ pc = "assemble"
  /\ Len(txHistory) = 1
  /\ txHistory[1].type = "Listing"
  /\ txHistory[1].seller = "A"
  /\ txOrigin[1].name = "approveD"
  /\ txOrigin[1].innerInstruction[1] = "approveO"

\* C24: a revoke reached while its transaction has no event yet gives a
\* CancelListing whose seller is the owner of the revoke, whatever the
\* length of the group.
C24_RevokeIsCancel ==
  [][ (Classifying /\ Fresh /\ ClassifyContext.ix.type = "revoke")
      => /\ AddedOne
         /\ AddedEvent.type = "CancelListing"
         /\ AddedEvent.seller = ClassifyContext.ix.owner ]_vars

\* C24 witness: a group of three with the revoke at its end was classified as
\* CancelListing.
C24_Witness ==
  /\ pc = "assemble"
  /\ Len(txHistory) = 1
  /\ txHistory[1].type = "CancelListing"
  /\ txHistory[1].seller = "A"
  /\ txOrigin[1].name = "revoke"
  /\ Len(txOrigin[1].innerInstruction) = 3
  /\ txOrigin[1].innerInstruction[3] = "revoke"

\* C25: a call of the handler on an instruction of a group in which nothing
\* satisfies a pattern adds no event and no signature, and the loop goes on.
C25_NoMatchNoEvent ==
  [][ (Classifying /\ NoPattern(ClassifyContext.innerInstruction))
      => /\ txHistory' = txHistory
         /\ checkedTransactions' = checkedTransactions
         /\ pc' \in {"classifyParse", "classifyFetch", "assemble"} ]_vars

\* C25 witness: the Classifier is done with a group of three parsed
\* instructions of which none satisfies a pattern, without an event.
C25_Witness ==
  /\ pc = "assemble"
  /\ rpcTxs.T1 = << GroupTx(<<"approveO", "solB", "solC">>) >>
  /\ NoPattern(rpcTxs.T1[1].innerInstructions[1])
  /\ txHistory = <<>>
  /\ checkedTransactions = {}

\* C26: at most one token-account history fetch is outstanding; it is the
\* fetch of the current account of the loop, and it is issued when the fetches
\* of the accounts before it have settled and no handler call is under way.
C26_OneFetchAtATime ==
  /\ Cardinality(inFlight) <= 1
  /\ inFlight # {} =>
       /\ pc = "classifyAwait"
       /\ inFlight = {tokenAccountsList[acctIdx]}
  /\ pc = "classifyAwait" =>
       Addresses(TokenAccountFetches) = SubSeq(tokenAccountsList, 1, acctIdx - 1)

\* C26 witness: the fetch of the second account is outstanding, the first
\* account having given an event.
C26_Witness ==
  /\ pc = "classifyAwait"
  /\ acctIdx = 2
  /\ inFlight = {tokenAccountsList[2]}
  /\ txHistory # <<>>

\* C27: no step of the Classifier changes the token accounts the Scanner
\* collected or the list made of them, and only accounts of that collection
\* have their history fetched.
C27_ClassifierKeepsAccounts ==
  [][ /\ pc \in {"classifyFetch", "classifyAwait", "classifyParse"} =>
           /\ tokenAccounts' = tokenAccounts
           /\ tokenAccountsList' = tokenAccountsList
      /\ Range(Addresses(TokenAccountFetches')) \subseteq Range(tokenAccounts')
    ]_vars

\* C27 witness: the query returned for a ledger on which the history of T1
\* holds a transfer to T2 that the mint's history does not hold; T2 was not
\* scanned and its cancellation is not in the result.
C27_Witness ==
  /\ pc = "done"
  /\ rpcTxs \in HiddenLedgers
  /\ tokenAccountsList = <<"T1">>
  /\ Addresses(TokenAccountFetches) = <<"T1">>
  /\ \E i \in 1..Len(fullHistory) : fullHistory[i].type = "Listing"
  /\ \A i \in 1..Len(fullHistory) : fullHistory[i].type # "CancelListing"

Count(h, e) == Cardinality({ i \in 1..Len(h) : h[i] = e })

\* a and b hold the same events, each as often
SameEvents(a, b) ==
  /\ Len(a) = Len(b)
  /\ \A i \in 1..Len(a) : Count(a, a[i]) = Count(b, a[i])

\* C28: the returned list holds the Scanner's and the Classifier's events,
\* each as often as they hold it and unaltered, whatever the block times.
C28_SortPermutes ==
  pc = "done" => SameEvents(fullHistory, mintAddressHistory \o txHistory)

\* C28 witness: a returned list of three or more events that the sort
\* reordered, one of them without block time.
C28_Witness ==
  /\ pc = "done"
  /\ Len(fullHistory) >= 3
  /\ fullHistory # mintAddressHistory \o txHistory
  /\ \E i \in 1..Len(fullHistory) : ~Known(fullHistory[i])
  /\ SameEvents(fullHistory, mintAddressHistory \o txHistory)

\* C29: a call of the handler that satisfies the Sale pattern in a group
\* without a transfer of a numeric lamports amount gives a Sale whose buyer is
\* the empty string and whose lamports is 0.
C29_SaleWithoutLegs ==
  [][ ( /\ Classifying
        /\ Fresh
        /\ SalePattern(ClassifyContext.ix, ClassifyContext.innerInstruction)
        /\ Legs(ClassifyContext.innerInstruction) = {} )
      => /\ AddedOne
         /\ AddedEvent.type = "Sale"
         /\ AddedEvent.buyer = ""
         /\ AddedEvent.lamports = BN(0, 0) ]_vars

\* C29 witness: a setAuthority from the listing account with a token transfer
\* that carries no lamports was classified as Sale without buyer.
C29_Witness ==
  /\ pc = "assemble"
  /\ Len(txHistory) = 1
  /\ txOrigin[1].innerInstruction = <<"saME", "tokD">>
  /\ txHistory[1].type = "Sale"
  /\ txHistory[1].buyer = ""
  /\ txHistory[1].lamports = BN(0, 0)

\* C30: once every history fetch of the page has settled after a change of
\* the address, the history state is the result, Ok or Err, of the fetch for
\* the address the page has now.
C30_LatestAddressWins ==
  (Len(navigations) >= 2 /\ pendingFetches = {}) =>
     \/ tokenHistoryState = Ok(currentAddress)
     \/ tokenHistoryState = Err(currentAddress)

====
